---- MODULE Spec2Model ----
(***************************************************************************)
(* A model of main.py: placeholder extraction (list_text_boxes), oracle    *)
(* response validation (validateJson), template rendering                  *)
(* (updateTemplatePlaceholders) and the generate_ppt request pipeline.     *)
(*                                                                         *)
(* A Python str is a sequence of one-character strings.  A JSON value is a *)
(* record tagged by t: "str", "list" (of str), "null", "num" or "dict" (a  *)
(* one-key object).  A dict (Python keeps insertion order) is a sequence   *)
(* of entries [k, v] with distinct keys.  A slide is a sequence of shapes, *)
(* a shape a record [has_text_frame, paragraphs], a paragraph a record     *)
(* [level, bullet, runs], a run its text.                                  *)
(***************************************************************************)
EXTENDS Integers, Sequences, FiniteSets, TLC

(* ------------------------------------------------------------------ str *)

SP == " "
LF == "\n"
\* U+2022, the bullet glyph list_text_boxes looks for
BULLET == "U+2022"
QUOTE == "\""

WHITESPACE == {SP, LF}
DIGITS == {"0", "1", "2", "3", "4", "5", "6", "7", "8", "9"}

RECURSIVE lstrip(_)
lstrip(s) ==
  IF s # <<>> /\ Head(s) \in WHITESPACE THEN lstrip(Tail(s)) ELSE s

RECURSIVE rstrip(_)
rstrip(s) ==
  IF s # <<>> /\ s[Len(s)] \in WHITESPACE
  THEN rstrip(SubSeq(s, 1, Len(s) - 1))
  ELSE s

\* str.strip()
strip(s) == rstrip(lstrip(s))

ToLower(c) ==
  CASE c = "A" -> "a"
    [] c = "B" -> "b"
    [] c = "Q" -> "q"
    [] OTHER -> c

\* str.lower()
lower(s) == [i \in 1..Len(s) |-> ToLower(s[i])]

\* str.isdigit(): every character a digit, and at least one character
isdigit(s) == s # <<>> /\ \A i \in 1..Len(s) : s[i] \in DIGITS

\* str.startswith(prefix)
startswith(s, prefix) ==
  Len(s) >= Len(prefix) /\ SubSeq(s, 1, Len(prefix)) = prefix

\* sep.join(parts)
RECURSIVE join(_, _)
join(sep, parts) ==
  IF parts = <<>> THEN <<>>
  ELSE IF Len(parts) = 1 THEN parts[1]
  ELSE parts[1] \o sep \o join(sep, Tail(parts))

(* ----------------------------------------------------------------- dict *)

\* key in d
HasKey(d, key) == \E i \in 1..Len(d) : d[i].k = key

\* d[key]
Get(d, key) == d[CHOOSE i \in 1..Len(d) : d[i].k = key].v

\* d[key] = value: an existing key keeps its position, a new key goes last
DictSet(d, key, value) ==
  IF HasKey(d, key)
  THEN [i \in 1..Len(d) |-> IF d[i].k = key THEN [k |-> key, v |-> value] ELSE d[i]]
  ELSE Append(d, [k |-> key, v |-> value])

Keys(d) == {d[i].k : i \in 1..Len(d)}

(* ------------------------------------------------------------- document *)

\* _Paragraph.text: the paragraph's run texts, concatenated
ParagraphText(p) == join(<<>>, p.runs)

\* shape.text: the paragraphs' texts joined by a line feed
ShapeText(shape) ==
  join(<<LF>>, [i \in 1..Len(shape.paragraphs) |-> ParagraphText(shape.paragraphs[i])])

\* line 53 without the strip(): a shape of blanks counts as a placeholder
IsPlaceholderShapeUntrimmed(shape) ==
  shape.has_text_frame /\ ShapeText(shape) # <<>>

\* line 53: the shapes list_text_boxes reads
IsPlaceholderShape(shape) ==
  shape.has_text_frame /\ strip(ShapeText(shape)) # <<>>

\* line 55
is_list(shape) ==
  \E i \in 1..Len(shape.paragraphs) :
    \/ shape.paragraphs[i].level > 0
    \/ startswith(strip(ParagraphText(shape.paragraphs[i])), <<BULLET>>)

\* line 61
RECURSIVE NonEmptyTexts(_)
NonEmptyTexts(paragraphs) ==
  IF paragraphs = <<>> THEN <<>>
  ELSE LET t == strip(ParagraphText(Head(paragraphs)))
       IN  (IF t # <<>> THEN <<t>> ELSE <<>>) \o NonEmptyTexts(Tail(paragraphs))

\* lines 58-64: the entry one shape stores under its key
PlaceholderOf(shape) ==
  IF is_list(shape)
  THEN [type |-> "list", items |-> NonEmptyTexts(shape.paragraphs)]
  ELSE [type |-> "text", value |-> strip(ShapeText(shape))]

\* lines 52-64: the loop over the first i shapes
RECURSIVE ListShapes(_, _)
ListShapes(shapes, i) ==
  IF i = 0 THEN <<>>
  ELSE LET placeholders == ListShapes(shapes, i - 1)
           shape == shapes[i]
       IN  IF IsPlaceholderShape(shape)
           THEN DictSet(placeholders, strip(ShapeText(shape)), PlaceholderOf(shape))
           ELSE placeholders

list_text_boxes(slide) == ListShapes(slide, Len(slide))

(* ----------------------------------------------------------- JSON value *)

Str(s) == [t |-> "str", s |-> s]
List(items) == [t |-> "list", items |-> items]
Null == [t |-> "null"]
\* a number, held as its decimal digits
Num(repr) == [t |-> "num", repr |-> repr]
\* a one-key object {key: inner}; inner is no dict
Dict(key, inner) == [t |-> "dict", key |-> key, inner |-> inner]

\* Python truth value: "", [], None and 0 are falsy
Truthy(v) ==
  CASE v.t = "str" -> v.s # <<>>
    [] v.t = "list" -> v.items # <<>>
    [] v.t = "null" -> FALSE
    [] v.t = "num" -> \E i \in 1..Len(v.repr) : v.repr[i] # "0"
    [] v.t = "dict" -> TRUE

\* json.dumps of one character of a str (ensure_ascii)
EscapeChar(c) ==
  CASE c = QUOTE -> <<"\\", QUOTE>>
    [] c = "\\" -> <<"\\", "\\">>
    [] c = LF -> <<"\\", "n">>
    [] c = BULLET -> <<"\\", "u", "2", "0", "2", "2">>
    [] OTHER -> <<c>>

JsonStr(s) ==
  <<QUOTE>> \o join(<<>>, [i \in 1..Len(s) |-> EscapeChar(s[i])]) \o <<QUOTE>>

JsonList(items) ==
  <<"[">> \o join(<<",", SP>>, [i \in 1..Len(items) |-> JsonStr(items[i])]) \o <<"]">>

JsonFlat(v) ==
  CASE v.t = "str" -> JsonStr(v.s)
    [] v.t = "list" -> JsonList(v.items)
    [] v.t = "null" -> <<"n", "u", "l", "l">>
    [] v.t = "num" -> v.repr

\* json.dumps(v, sort_keys=True)
json_dumps(v) ==
  IF v.t = "dict"
  THEN <<"{">> \o JsonStr(v.key) \o <<":", SP>> \o JsonFlat(v.inner) \o <<"}">>
  ELSE JsonFlat(v)

\* str(v) of a value that is neither dict nor list (None is falsy and never
\* gets here)
str(v) ==
  CASE v.t = "str" -> v.s
    [] v.t = "num" -> v.repr
    [] v.t = "null" -> <<"N", "o", "n", "e">>

(* --------------------------------------------------------- validateJson *)

ERROR_KEY == <<"e", "r", "r", "o", "r">>
VALUE_KEY == <<"v", "a", "l", "u", "e">>

\* validateJson without lines 277-279
HasErrorKeyUnchecked(cleaned_json) == FALSE

\* line 277
HasErrorKey(cleaned_json) == HasKey(cleaned_json, ERROR_KEY)

\* line 282 with < for !=: only a missing key is a mismatch
CountMismatchFewer(cleaned_json, textBoxList) == Len(cleaned_json) < Len(textBoxList)

\* line 282
CountMismatch(cleaned_json, textBoxList) == Len(cleaned_json) # Len(textBoxList)

\* line 289
IsEmptyValue(v) == ~Truthy(v)

\* line 294
IsNumericKey(k) == isdigit(k)

\* line 298
EchoesKey(k, v) == v.t = "str" /\ lower(strip(v.s)) = lower(strip(k))

\* lines 303-306
ValueHash(v) ==
  IF v.t \in {"dict", "list"} THEN json_dumps(v) ELSE strip(str(v))

\* lines 288-312 without line 312: no value is ever added to seen_values
RECURSIVE ValidateValuesNoAdd(_, _, _)
ValidateValuesNoAdd(cleaned_json, i, seen_values) ==
  IF i > Len(cleaned_json) THEN TRUE
  ELSE LET k == cleaned_json[i].k
           v == cleaned_json[i].v
       IN  IF IsEmptyValue(v) THEN FALSE
           ELSE IF IsNumericKey(k)
                THEN ValidateValuesNoAdd(cleaned_json, i + 1, seen_values)
           ELSE IF EchoesKey(k, v) THEN FALSE
           ELSE IF ValueHash(v) \in seen_values THEN FALSE
           ELSE ValidateValuesNoAdd(cleaned_json, i + 1, seen_values)

\* lines 288-312: the loop from item i on, seen_values as collected so far
RECURSIVE ValidateValues(_, _, _)
ValidateValues(cleaned_json, i, seen_values) ==
  IF i > Len(cleaned_json) THEN TRUE
  ELSE LET k == cleaned_json[i].k
           v == cleaned_json[i].v
       IN  IF IsEmptyValue(v) THEN FALSE
           ELSE IF IsNumericKey(k)
                THEN ValidateValues(cleaned_json, i + 1, seen_values)
           ELSE IF EchoesKey(k, v) THEN FALSE
           ELSE IF ValueHash(v) \in seen_values THEN FALSE
           ELSE ValidateValues(cleaned_json, i + 1, seen_values \cup {ValueHash(v)})

validateJson(cleaned_json, textBoxList) ==
  IF HasErrorKey(cleaned_json) THEN FALSE
  ELSE IF CountMismatch(cleaned_json, textBoxList) THEN FALSE
  ELSE ValidateValues(cleaned_json, 1, {})

(* ------------------------------------------- updateTemplatePlaceholders *)

\* lines 83-88
is_list_shape(shape) ==
  \/ Len(shape.paragraphs) > 1
  \/ \E i \in 1..Len(shape.paragraphs) : shape.paragraphs[i].level > 0
  \/ \E i \in 1..Len(shape.paragraphs) : shape.paragraphs[i].bullet = "buChar"
  \/ \E i \in 1..Len(shape.paragraphs) : shape.paragraphs[i].bullet = "buAutoNum"

\* lines 77-80
Unwrap(raw) ==
  IF raw.t = "dict" /\ raw.key = VALUE_KEY THEN raw.inner ELSE raw

\* lines 91-96
Coerce(shape, value) ==
  LET wrapped == IF is_list_shape(shape) /\ value.t = "str"
                 THEN List(<<value.s>>) ELSE value
  IN  IF ~is_list_shape(shape) /\ wrapped.t = "list"
      THEN Str(join(<<SP>>, wrapped.items))
      ELSE wrapped

\* lines 100-103 and 106-109: every run whose trimmed text is the key gets text
ReplaceRuns(shape, original_text, text) ==
  [shape EXCEPT !.paragraphs =
    [i \in 1..Len(shape.paragraphs) |->
      [shape.paragraphs[i] EXCEPT !.runs =
        [j \in 1..Len(shape.paragraphs[i].runs) |->
          IF strip(shape.paragraphs[i].runs[j]) = original_text
          THEN text
          ELSE shape.paragraphs[i].runs[j]]]]]

\* _Paragraph.text = text: the old content goes, and a run is added unless it
\* would be empty
SetParagraphText(p, text) ==
  [p EXCEPT !.runs = IF text = <<>> THEN <<>> ELSE <<text>>]

\* lines 118-124
SetItem(p, item) ==
  IF p.runs # <<>>
  THEN [p EXCEPT !.runs = [j \in 1..Len(p.runs) |-> IF j = 1 THEN item ELSE <<>>]]
  ELSE SetParagraphText(p, item)

\* lines 127-129: add_paragraph(), p.text = item, p.level = 0
NewParagraph(item) ==
  SetParagraphText([level |-> 0, bullet |-> "none", runs |-> <<>>], item)

\* lines 134-138
BlankParagraph(p) ==
  IF p.runs # <<>>
  THEN [p EXCEPT !.runs = [j \in 1..Len(p.runs) |-> <<>>]]
  ELSE SetParagraphText(p, <<>>)

\* lines 112-130 without lines 132-138: the leftover paragraphs keep their text
ApplyListNoClear(shape, new_value) ==
  LET paragraphs == shape.paragraphs
      m == Len(paragraphs)
      n == Len(new_value)
  IN  [shape EXCEPT !.paragraphs =
        [i \in 1..(IF n > m THEN n ELSE m) |->
          IF i <= n /\ i <= m THEN SetItem(paragraphs[i], new_value[i])
          ELSE IF i <= n THEN NewParagraph(new_value[i])
          ELSE paragraphs[i]]]

\* lines 112-138; paragraphs is the tuple taken at line 112, so its length is
\* the paragraph count before any paragraph is added
ApplyList(shape, new_value) ==
  LET paragraphs == shape.paragraphs
      m == Len(paragraphs)
      n == Len(new_value)
  IN  [shape EXCEPT !.paragraphs =
        [i \in 1..(IF n > m THEN n ELSE m) |->
          IF i <= n /\ i <= m THEN SetItem(paragraphs[i], new_value[i])
          ELSE IF i <= n THEN NewParagraph(new_value[i])
          ELSE BlankParagraph(paragraphs[i])]]

\* lines 99-141: the branch on the type of new_value
ApplyValue(shape, original_text, new_value) ==
  CASE new_value.t = "str" -> ReplaceRuns(shape, original_text, new_value.s)
    [] new_value.t = "null" -> ReplaceRuns(shape, original_text, <<>>)
    [] new_value.t = "list" -> ApplyList(shape, new_value.items)
    [] OTHER -> shape

\* line 76
Matches(shape, replacements) ==
  HasKey(replacements, strip(ShapeText(shape)))

\* lines 74-141 with replacements.get(original_text) for the test of line 76:
\* a shape whose text is no key gets the absent value
UpdateShapeGet(shape, replacements) ==
  IF ~shape.has_text_frame THEN shape
  ELSE LET original_text == strip(ShapeText(shape))
           value == IF Matches(shape, replacements)
                    THEN Get(replacements, original_text) ELSE Null
       IN  ApplyValue(shape, original_text, Coerce(shape, Unwrap(value)))

\* lines 74-141: one iteration of the loop over the shapes
UpdateShape(shape, replacements) ==
  IF ~shape.has_text_frame THEN shape
  ELSE IF ~Matches(shape, replacements) THEN shape
  ELSE LET original_text == strip(ShapeText(shape))
       IN  ApplyValue(shape, original_text,
                      Coerce(shape, Unwrap(Get(replacements, original_text))))

\* the slide that prs.save writes
updateTemplatePlaceholders(slide, replacements) ==
  [i \in 1..Len(slide) |-> UpdateShape(slide[i], replacements)]

(* ---------------------------------------------------------------- inputs *)

\* the longest list the oracle returns
MaxItems == 3
\* concurrent generate_ppt requests
NumRequests == 2
\* the names uuid4().hex[:8] can take
NumIds == 2

Para(level, bullet, runs) == [level |-> level, bullet |-> bullet, runs |-> runs]
TextShape(paragraphs) == [has_text_frame |-> TRUE, paragraphs |-> paragraphs]
Picture == [has_text_frame |-> FALSE, paragraphs |-> <<>>]

\* one plain paragraph holding text in one run
Plain(text) == TextShape(<<Para(0, "none", <<text>>)>>)

\* the template slides: a picture, titles, ordinals ("1", "2"), text split over
\* two runs, a shape reading "error", two shapes with the same text, bulleted
\* and multi-paragraph shapes, an empty paragraph, a whitespace-only shape
Templates ==
  { <<Picture, Plain(<<"A">>), Plain(<<"1">>), Plain(<<"Q">>)>>,
    <<Plain(<<"A">>),
      TextShape(<<Para(1, "buChar", <<<<"x">>>>), Para(1, "buChar", <<<<"y">>>>)>>)>>,
    <<TextShape(<<Para(0, "none", <<<<"B">>, <<"c">>>>)>>)>>,
    <<Plain(ERROR_KEY)>>,
    <<Plain(<<"A">>), Plain(<<"Q">>), TextShape(<<Para(1, "none", <<<<"A">>>>)>>)>>,
    <<TextShape(<<Para(0, "none", <<<<"p">>>>), Para(0, "none", <<<<"q">>>>)>>)>>,
    <<Plain(<<SP>>), Plain(<<"1">>), Plain(<<"2">>)>>,
    <<Plain(<<BULLET, "k">>)>>,
    <<TextShape(<<Para(0, "buChar", <<<<"w">>>>)>>)>>,
    <<TextShape(<<Para(1, "buAutoNum", <<<<"x">>, <<"y">>>>),
                  Para(1, "buAutoNum", <<>>),
                  Para(1, "buAutoNum", <<<<"z">>>>)>>)>>,
    <<Plain(<<"A", SP>>), TextShape(<<Para(0, "none", <<<<"Q">>, <<SP>>>>)>>)>> }

\* a list of n items: "n", "m", "n", ...
ListItems(n) == [i \in 1..n |-> IF i % 2 = 1 THEN <<"n">> ELSE <<"m">>]

\* what the oracle may return for placeholder key k: strings (plain, padded,
\* empty, the key echoed in lower case, the text of a serialized list), lists
\* of 0..MaxItems items, null, a number, {"value": ...} objects
Values(k) ==
  { Str(<<"n">>), Str(<<"m">>), Str(<<SP, "n">>), Str(<<>>), Str(lower(k)),
    Str(<<"[", QUOTE, "n", QUOTE, "]">>),
    Null, Num(<<"5">>),
    Dict(VALUE_KEY, Str(<<"n">>)), Dict(VALUE_KEY, Null) }
  \cup { List(ListItems(n)) : n \in 0..MaxItems }

\* a key no template holds
FOREIGN_KEY == <<"z">>

KeySeq(d) == [i \in 1..Len(d) |-> d[i].k]
Reverse(s) == [i \in 1..Len(s) |-> s[Len(s) + 1 - i]]
Front(s) == SubSeq(s, 1, Len(s) - 1)

\* the key sequences of the oracle's replies to placeholders P: P's keys in
\* order or reversed, one key dropped, one key added or replaced by a foreign
\* key or by "error"
ReplyKeys(placeholders) ==
  LET keys == KeySeq(placeholders)
  IN  {keys, Reverse(keys), <<ERROR_KEY>>}
      \cup { Append(keys, x) : x \in {FOREIGN_KEY, ERROR_KEY} \ Keys(placeholders) }
      \cup (IF keys = <<>> THEN {}
            ELSE {Front(keys)}
                 \cup { Append(Front(keys), x) :
                          x \in {FOREIGN_KEY, ERROR_KEY} \ Keys(placeholders) })

\* the mappings with key sequence keys: a placeholder's key takes any value of
\* Values, any other key a plain string
RECURSIVE Mappings(_, _)
Mappings(keys, placeholders) ==
  IF keys = <<>> THEN {<<>>}
  ELSE LET k == Head(keys)
           pool == IF HasKey(placeholders, k) THEN Values(k) ELSE {Str(<<"t">>)}
       IN  { <<[k |-> k, v |-> v]>> \o rest :
               v \in pool, rest \in Mappings(Tail(keys), placeholders) }

Replies(placeholders) ==
  UNION { Mappings(keys, placeholders) : keys \in ReplyKeys(placeholders) }

(* ----------------------------------------------------------------- state *)

VARIABLES
  \* the functions applied in turn to one template D and one oracle reply M
  D, P, M, accepted, rendered, reread, step,
  \* the generate_ppt requests, the temporary files and GENERATED_DIR
  req, tmp_files, generated

fnvars == <<D, P, M, accepted, rendered, reread, step>>
reqvars == <<req, tmp_files, generated>>
vars == <<D, P, M, accepted, rendered, reread, step, req, tmp_files, generated>>

Requests == 1..NumRequests
Ids == 1..NumIds

IdleRequest ==
  [pc |-> "start", slide |-> <<>>, textBoxList |-> <<>>, cleanedJson |-> <<>>,
   valid |-> "none", updated_pptx |-> <<>>, public_filename |-> 0, result |-> "none"]

ReqInit ==
  /\ req = [r \in Requests |-> IdleRequest]
  /\ tmp_files = {}
  /\ generated = [id \in Ids |-> 0]

(* ----------------------------------------- the functions, one at a time *)

FnInit ==
  /\ D \in Templates
  /\ P = <<>> /\ M = <<>> /\ accepted = FALSE
  /\ rendered = <<>> /\ reread = <<>>
  /\ step = "template"
  /\ ReqInit

Extract ==
  /\ step = "template"
  /\ P' = list_text_boxes(D)
  /\ step' = "extracted"
  /\ UNCHANGED <<D, M, accepted, rendered, reread>>
  /\ UNCHANGED reqvars

Reply ==
  /\ step = "extracted"
  /\ M' \in Replies(P)
  /\ step' = "replied"
  /\ UNCHANGED <<D, P, accepted, rendered, reread>>
  /\ UNCHANGED reqvars

Validate ==
  /\ step = "replied"
  /\ accepted' = validateJson(M, P)
  /\ step' = "validated"
  /\ UNCHANGED <<D, P, M, rendered, reread>>
  /\ UNCHANGED reqvars

Render ==
  /\ step = "validated"
  /\ rendered' = updateTemplatePlaceholders(D, M)
  /\ step' = "rendered"
  /\ UNCHANGED <<D, P, M, accepted, reread>>
  /\ UNCHANGED reqvars

ReExtract ==
  /\ step = "rendered"
  /\ reread' = list_text_boxes(rendered)
  /\ step' = "reread"
  /\ UNCHANGED <<D, P, M, accepted, rendered>>
  /\ UNCHANGED reqvars

FnNext ==
  \/ Extract
  \/ Reply
  \/ Validate
  \/ Render
  \/ ReExtract

SpecFn == FnInit /\ [][FnNext]_vars

(* ---------------------------------------------------------- generate_ppt *)

\* the templates and oracle values of the concurrent requests
RequestTemplates ==
  { <<Plain(<<"A">>)>>, <<Plain(ERROR_KEY)>>, <<Plain(<<"A">>), Plain(<<"1">>)>> }

RequestValues(k) == {Str(<<"n">>), Str(<<>>), Str(lower(k))}

RECURSIVE RequestMappings(_, _)
RequestMappings(keys, placeholders) ==
  IF keys = <<>> THEN {<<>>}
  ELSE LET k == Head(keys)
           pool == IF HasKey(placeholders, k) THEN RequestValues(k) ELSE {Str(<<"t">>)}
       IN  { <<[k |-> k, v |-> v]>> \o rest :
               v \in pool, rest \in RequestMappings(Tail(keys), placeholders) }

\* the key sequences of the replies: P's keys, "error" alone, "error" added,
\* one key dropped, one key replaced by "error"
RequestReplyKeys(placeholders) ==
  LET keys == KeySeq(placeholders)
  IN  {keys, <<ERROR_KEY>>, Front(keys)}
      \cup { Append(ks, ERROR_KEY) :
               ks \in IF HasKey(placeholders, ERROR_KEY) THEN {} ELSE {keys, Front(keys)} }

RequestReplies(placeholders) ==
  UNION { RequestMappings(keys, placeholders) : keys \in RequestReplyKeys(placeholders) }

\* the temporary files of request r: pptx_path, download_image's file, updated_pptx
TmpFile(r, kind) == <<r, kind>>

\* line 403 testing only for the oracle's own refusal
RejectsErrorOnly(cleaned_json, textBoxList) == HasErrorKey(cleaned_json)

\* line 403
Rejects(cleaned_json, textBoxList) == ~validateJson(cleaned_json, textBoxList)

\* line 406
REJECTED == "error: Error Generating PPTX, Content too short for the template"

\* lines 152 and 166: HTTPException(400); line 401: json.loads raises
Raise(r, exception) ==
  req' = [req EXCEPT ![r].pc = "done", ![r].result = exception]

\* lines 319-320: download_pptx, then list_text_boxes
DownloadPptx(r) ==
  /\ req[r].pc = "start"
  /\ \/ /\ Raise(r, "HTTPException 400: Could not download PPT file")
        /\ UNCHANGED tmp_files
     \/ \E slide \in RequestTemplates :
          /\ tmp_files' = tmp_files \cup {TmpFile(r, "pptx_path")}
          /\ req' = [req EXCEPT ![r].pc = "extracted",
                                ![r].slide = slide,
                                ![r].textBoxList = list_text_boxes(slide)]
  /\ UNCHANGED <<generated, fnvars>>

\* line 396: download_image
DownloadImage(r) ==
  /\ req[r].pc = "extracted"
  /\ \/ /\ Raise(r, "HTTPException 400: Could not download image file")
        /\ UNCHANGED tmp_files
     \/ /\ tmp_files' = tmp_files \cup {TmpFile(r, "image")}
        /\ req' = [req EXCEPT ![r].pc = "awaiting"]
  /\ UNCHANGED <<generated, fnvars>>

\* lines 397-401: the oracle's reply, parsed by json.loads
GenerateContent(r) ==
  /\ req[r].pc = "awaiting"
  /\ \/ Raise(r, "JSONDecodeError")
     \/ \E reply \in RequestReplies(req[r].textBoxList) :
          req' = [req EXCEPT ![r].pc = "parsed", ![r].cleanedJson = reply]
  /\ UNCHANGED <<tmp_files, generated, fnvars>>

\* lines 403-406
CheckReply(r) ==
  /\ req[r].pc = "parsed"
  /\ IF Rejects(req[r].cleanedJson, req[r].textBoxList)
     THEN /\ tmp_files' = tmp_files \ {TmpFile(r, "pptx_path")}
          /\ req' = [req EXCEPT ![r].pc = "done", ![r].valid = "rejected",
                                ![r].result = REJECTED]
     ELSE /\ req' = [req EXCEPT ![r].pc = "validated", ![r].valid = "accepted"]
          /\ UNCHANGED tmp_files
  /\ UNCHANGED <<generated, fnvars>>

\* line 408: updateTemplatePlaceholders saves to a new temporary file
RenderReply(r) ==
  /\ req[r].pc = "validated"
  /\ tmp_files' = tmp_files \cup {TmpFile(r, "updated_pptx")}
  /\ req' = [req EXCEPT ![r].pc = "rendered",
                        ![r].updated_pptx =
                          updateTemplatePlaceholders(req[r].slide, req[r].cleanedJson)]
  /\ UNCHANGED <<generated, fnvars>>

\* lines 411-418: uuid4().hex[:8] names the public file; shutil.copy writes it,
\* over a file of that name if there is one
Publish(r) ==
  /\ req[r].pc = "rendered"
  /\ \E unique_id \in Ids :
       /\ generated' = [generated EXCEPT ![unique_id] = r]
       /\ req' = [req EXCEPT ![r].pc = "published", ![r].public_filename = unique_id]
  /\ UNCHANGED <<tmp_files, fnvars>>

\* lines 420-428
Finish(r) ==
  /\ req[r].pc = "published"
  /\ tmp_files' = tmp_files \ {TmpFile(r, "updated_pptx"), TmpFile(r, "pptx_path")}
  /\ req' = [req EXCEPT ![r].pc = "done", ![r].result = "file_url"]
  /\ UNCHANGED <<generated, fnvars>>

Init ==
  /\ ReqInit
  /\ D = <<>> /\ P = <<>> /\ M = <<>> /\ accepted = FALSE
  /\ rendered = <<>> /\ reread = <<>>
  /\ step = "none"

Next ==
  \/ \E r \in Requests : DownloadPptx(r)
  \/ \E r \in Requests : DownloadImage(r)
  \/ \E r \in Requests : GenerateContent(r)
  \/ \E r \in Requests : CheckReply(r)
  \/ \E r \in Requests : RenderReply(r)
  \/ \E r \in Requests : Publish(r)
  \/ \E r \in Requests : Finish(r)

Spec == Init /\ [][Next]_vars

(* ---------------------------------------------------------------- claims *)

Extracted == step \in {"extracted", "replied", "validated", "rendered", "reread"}
Validated == step \in {"validated", "rendered", "reread"}
Rendered == step \in {"rendered", "reread"}

NonNumeric(d) == {i \in 1..Len(d) : ~isdigit(d[i].k)}

\* the three conditions of the validation contract
NoEmptyValue(d) ==
  \A i \in 1..Len(d) :
    /\ d[i].v # Str(<<>>) /\ d[i].v # List(<<>>) /\ d[i].v # Null
    /\ d[i].v.t = "num" => d[i].v.repr # <<"0">>
NoEchoedKey(d) ==
  \A i \in NonNumeric(d) :
    ~(d[i].v.t = "str" /\ lower(strip(d[i].v.s)) = lower(d[i].k))
\* the canonicalized value: a string trimmed, a list or object serialized
Canonical(v) ==
  CASE v.t = "str" -> strip(v.s)
    [] v.t = "num" -> v.repr
    [] OTHER -> json_dumps(v)
NoSharedValue(d) ==
  \A i, j \in NonNumeric(d) : i # j => Canonical(d[i].v) # Canonical(d[j].v)
Contract(d) == NoEmptyValue(d) /\ NoEchoedKey(d) /\ NoSharedValue(d)

\* C1 as stated: for every placeholder set P and mapping M with the keys of P,
\* validateJson(M, P) accepts if and only if no value is empty, no non-numeric
\* key is echoed by its value and no two non-numeric keys share a
\* canonicalized value.
C1_AcceptsIffContract ==
  (Validated /\ Keys(M) = Keys(P)) => (accepted <=> Contract(M))

\* C1, amended: for every placeholder set P and mapping M with the keys of P,
\* validateJson(M, P) accepts if and only if M carries no "error" key and the
\* three conditions hold.
C1_AcceptsIffNoErrorAndContract ==
  (Validated /\ Keys(M) = Keys(P)) =>
    (accepted <=> (~HasKey(M, ERROR_KEY) /\ Contract(M)))

\* Scenario D: two non-numeric keys with the same string, nothing else wrong,
\* and the mapping rejected
C1_Witness ==
  /\ step = "validated" /\ Keys(M) = Keys(P) /\ ~HasKey(M, ERROR_KEY)
  /\ NoEmptyValue(M) /\ NoEchoedKey(M)
  /\ \E i, j \in NonNumeric(M) : i # j /\ M[i].v.t = "str" /\ M[i].v = M[j].v
  /\ ~accepted

\* C4, the cardinality law: a mapping whose number of keys differs from the
\* number of placeholders is rejected, whatever its values.
C4_CardinalityLaw ==
  (Validated /\ Len(M) # Len(P)) => ~accepted

\* a superset of the placeholders whose values all pass, rejected
C4_Witness ==
  /\ step = "validated" /\ Len(M) > Len(P) /\ Len(P) > 0
  /\ ~HasKey(M, ERROR_KEY) /\ Contract(M)
  /\ ~accepted

\* the trimmed texts of the shapes that have a text frame and non-blank text,
\* in traversal order, each text at its first place only
RECURSIVE TraversalKeys(_, _)
TraversalKeys(slide, i) ==
  IF i = 0 THEN <<>>
  ELSE LET before == TraversalKeys(slide, i - 1)
           text == IF slide[i].has_text_frame THEN strip(ShapeText(slide[i])) ELSE <<>>
       IN  IF text = <<>> \/ \E j \in 1..Len(before) : before[j] = text
           THEN before
           ELSE Append(before, text)

\* C9: the keys list_text_boxes returns are the trimmed texts of the shapes
\* with a text frame and non-blank text, in the order the shapes are traversed;
\* every key is non-empty after trimming; no other shape contributes a key.
C9_KeysInTraversalOrder ==
  Extracted =>
    /\ KeySeq(P) = TraversalKeys(D, Len(D))
    /\ \A i \in 1..Len(P) : strip(P[i].k) # <<>>

\* a slide with a shape that contributes nothing and two keys or more
C9_Witness ==
  /\ step = "extracted" /\ Len(P) >= 2
  /\ \E i \in 1..Len(D) : ~D[i].has_text_frame \/ strip(ShapeText(D[i])) = <<>>

\* C8: rendering leaves every shape that has no text frame, or whose trimmed
\* text is no key of the mapping, with the paragraphs and run texts it had.
C8_OtherShapesUntouched ==
  Rendered =>
    /\ Len(rendered) = Len(D)
    /\ \A i \in 1..Len(D) :
         (~D[i].has_text_frame \/ strip(ShapeText(D[i])) \notin Keys(M))
           => rendered[i] = D[i]

\* a shape with text that is no key stays while another shape changes
C8_Witness ==
  /\ step = "rendered"
  /\ \E i, j \in 1..Len(D) :
       /\ D[i].has_text_frame /\ strip(ShapeText(D[i])) # <<>>
       /\ strip(ShapeText(D[i])) \notin Keys(M)
       /\ rendered[i] = D[i]
       /\ rendered[j] # D[j]

\* the list that rendering applies to shape i, when it applies one
AppliedList(i) ==
  LET raw == Get(M, strip(ShapeText(D[i])))
      value == IF raw.t = "dict" /\ raw.key = VALUE_KEY THEN raw.inner ELSE raw
  IN  IF value.t = "str" THEN <<value.s>> ELSE value.items
AppliesList(i) ==
  /\ D[i].has_text_frame /\ strip(ShapeText(D[i])) \in Keys(M)
  /\ is_list_shape(D[i])
  /\ LET raw == Get(M, strip(ShapeText(D[i])))
         value == IF raw.t = "dict" /\ raw.key = VALUE_KEY THEN raw.inner ELSE raw
     IN  value.t \in {"str", "list"}

AllRunsBlank(p) == \A j \in 1..Len(p.runs) : p.runs[j] = <<>>

\* C7: a list of n items applied to a matching list-like shape of m
\* paragraphs: item i goes to paragraph i for i < min(n, m); with n > m, n - m
\* paragraphs are appended, at level 0, holding the remaining items in order;
\* with n < m the shape keeps m paragraphs and those from index n on are blank.
C7_ListApplication ==
  Rendered =>
    \A i \in 1..Len(D) : AppliesList(i) =>
      LET items == AppliedList(i)
          n == Len(items)
          m == Len(D[i].paragraphs)
          out == rendered[i].paragraphs
      IN  /\ Len(out) = IF n > m THEN n ELSE m
          /\ \A j \in 1..Len(out) :
               /\ j <= n => ParagraphText(out[j]) = items[j]
               /\ (j <= n /\ j > m) => out[j].level = 0
               /\ j > n => AllRunsBlank(out[j])

\* Scenario C: three items against two paragraphs, one paragraph appended at
\* level 0
C7_Witness ==
  /\ step = "rendered"
  /\ \E i \in 1..Len(D) :
       /\ AppliesList(i)
       /\ Len(AppliedList(i)) = 3 /\ Len(D[i].paragraphs) = 2
       /\ Len(rendered[i].paragraphs) = 3
       /\ rendered[i].paragraphs[3].level = 0

\* C5 as stated: after a validated M is rendered into D and the result read
\* again, every placeholder that was extracted with type text has a shape
\* whose extracted text is the value M gave it.  Read in the code's favour:
\* only string values are held to it, and the value is trimmed as extraction
\* trims every text.
C5_RoundTrip ==
  (step = "reread" /\ accepted) =>
    \A i \in 1..Len(P) :
      (P[i].v.type = "text" /\ HasKey(M, P[i].k) /\ Get(M, P[i].k).t = "str") =>
        HasKey(reread, strip(Get(M, P[i].k).s))

TmpKinds == {"pptx_path", "image", "updated_pptx"}

\* C2 as stated: when a request has ended, by any exit, none of its temporary
\* files (template, reference image, rendered file) is left.
C2_NoTemporaryFileLeft ==
  \A r \in Requests :
    req[r].pc = "done" => \A kind \in TmpKinds : TmpFile(r, kind) \notin tmp_files

Failed(r) ==
  req[r].pc = "done" /\ req[r].result # "file_url"

HasArtifact(r) ==
  \/ req[r].pc \in {"rendered", "published"}
  \/ req[r].updated_pptx # <<>>
  \/ TmpFile(r, "updated_pptx") \in tmp_files
  \/ req[r].public_filename # 0
  \/ \E id \in Ids : generated[id] = r

\* C3: a rendered or published file exists only for a request whose mapping
\* validateJson accepted; a request that ended by a failed download, a
\* malformed reply or a rejection has no rendered or published file and
\* returned an error, not a file URL.
C3_PublishOnlyAfterAcceptance ==
  \A r \in Requests :
    /\ HasArtifact(r) =>
         /\ req[r].valid = "accepted"
         /\ validateJson(req[r].cleanedJson, req[r].textBoxList)
    /\ req[r].result = "file_url" => req[r].valid = "accepted"
    /\ Failed(r) => ~HasArtifact(r)
    /\ (req[r].pc = "done" /\ req[r].valid # "accepted") => Failed(r)

\* one request has published while another was rejected
C3_Witness ==
  \E r1, r2 \in Requests :
    /\ req[r1].result = "file_url"
    /\ generated[req[r1].public_filename] = r1
    /\ req[r2].valid = "rejected" /\ Failed(r2) /\ ~HasArtifact(r2)

\* C10: a mapping with an "error" key is rejected by validateJson whatever the
\* placeholders and its other keys and values, and generate_ppt then deletes
\* the fetched template and returns the failure it returns for every rejection.
C10_ErrorKeyRejected ==
  \A r \in Requests :
    /\ HasKey(req[r].cleanedJson, ERROR_KEY) =>
         /\ ~validateJson(req[r].cleanedJson, req[r].textBoxList)
         /\ req[r].pc \in {"parsed", "done"}
         /\ req[r].pc = "done" =>
              /\ req[r].valid = "rejected"
              /\ req[r].result = REJECTED
              /\ TmpFile(r, "pptx_path") \notin tmp_files
              /\ ~HasArtifact(r)
    /\ req[r].valid = "rejected" =>
         /\ req[r].result = REJECTED
         /\ TmpFile(r, "pptx_path") \notin tmp_files

\* a mapping that has as many keys as there are placeholders, good values and
\* an "error" key, rejected, beside a request rejected for an empty value
C10_Witness ==
  \E r1, r2 \in Requests :
    /\ req[r1].pc = "done" /\ HasKey(req[r1].cleanedJson, ERROR_KEY)
    /\ Len(req[r1].cleanedJson) = Len(req[r1].textBoxList)
    /\ Len(req[r1].cleanedJson) = 2
    /\ Contract(req[r1].cleanedJson)
    /\ req[r1].result = REJECTED
    /\ req[r2].pc = "done" /\ ~HasKey(req[r2].cleanedJson, ERROR_KEY)
    /\ req[r2].result = REJECTED

\* C6 as stated: in every interleaving, the requests that publish write to
\* pairwise distinct public paths, so no published file is replaced by
\* another request's.
C6_DistinctPublicPaths ==
  \A r1, r2 \in Requests :
    (r1 # r2 /\ req[r1].public_filename # 0 /\ req[r2].public_filename # 0)
      => req[r1].public_filename # req[r2].public_filename

\* the value updateTemplatePlaceholders applies to shape i, a shape whose
\* trimmed text is a key of M: M's value unwrapped and coerced
AppliedValue(i) ==
  Coerce(D[i], Unwrap(Get(M, strip(ShapeText(D[i])))))

\* C11 as stated: for a mapping validateJson accepted, every value applied to
\* a matching shape, after unwrapping {"value": ...} and after the string/list
\* coercion, is a non-empty string or a non-empty list, so neither the
\* clear-to-empty branch nor the unknown-type branch is taken.
C11_AppliedValuesNonEmpty ==
  (Rendered /\ accepted) =>
    \A i \in 1..Len(D) :
      (D[i].has_text_frame /\ strip(ShapeText(D[i])) \in Keys(M)) =>
        \/ AppliedValue(i).t = "str" /\ AppliedValue(i).s # <<>>
        \/ AppliedValue(i).t = "list" /\ AppliedValue(i).items # <<>>

====
